---- MODULE Spec2Model ----
(***************************************************************************)
(* A model of mods_manager.py: one run of main() over the local mods       *)
(* directory, the manifest mod-list.json and the remote mod portal, and    *)
(* the release resolver get_mod_infos as a function of its inputs.         *)
(***************************************************************************)
EXTENDS Integers, Sequences, FiniteSets, TLC

VARIABLES
    pc,        \* position of main(): which statement group runs next
    args,      \* argparse result
    glob,      \* the module-level dictionary glob
    files,     \* mods directory: file name -> digest of its content
    manifest,  \* mod-list.json: the sequence under the key "mods"
    upd,       \* the running update_mods call: its loop's remaining mods
    restarts,  \* number of 'systemctl restart' invocations
    effects,   \* what the last step did (calls made, calls that acted)
    rin,       \* resolver inputs (resolver specification only)
    rout       \* resolver result (resolver specification only)

vars == <<pc, args, glob, files, manifest, upd, restarts, effects, rin, rout>>

\* ------------------------------------------------------------------ bounds
\* releases per mod in the remote catalog
NumReleases == 2
\* files present in the mods directory when the run starts
MaxLocal == 2
\* length of a release collection handed to the resolver
MaxLen == 3
\* distinct release timestamps handed to the resolver
MaxTime == 3

\* ------------------------------------------------------------------ values
None == "None"
Mods == {"a", "b"}
\* host versions a release can require (major, minor)
Versions == {<<0, 18>>, <<1, 0>>, <<1, 1>>}
\* what 'factorio --version' can report (major, minor, patch)
BinaryVersions == {<<1, 0, 2>>}

\* packaging.version comparison of two-component versions
VersionLeq(v, w) == v[1] < w[1] \/ (v[1] = w[1] /\ v[2] <= w[2])

\* only the main and major components are kept
find_version(binary) == <<binary[1], binary[2]>>

\* ------------------------------------------------------------------ resolver
\* insert x behind every element released at the same time or later
RECURSIVE InsertDesc(_, _)
InsertDesc(x, s) ==
    IF s = <<>> THEN <<x>>
    ELSE IF Head(s).released_at >= x.released_at
         THEN <<Head(s)>> \o InsertDesc(x, Tail(s))
         ELSE <<x>> \o s

RECURSIVE SortFrom(_, _)
SortFrom(s, acc) ==
    IF s = <<>> THEN acc ELSE SortFrom(Tail(s), InsertDesc(Head(s), acc))

\* the same, most recent last: what dropping reverse=True would give
RECURSIVE InsertAsc(_, _)
InsertAsc(x, s) ==
    IF s = <<>> THEN <<x>>
    ELSE IF Head(s).released_at <= x.released_at
         THEN <<Head(s)>> \o InsertAsc(x, Tail(s))
         ELSE <<x>> \o s

RECURSIVE SortFromAsc(_, _)
SortFromAsc(s, acc) ==
    IF s = <<>> THEN acc ELSE SortFromAsc(Tail(s), InsertAsc(Head(s), acc))

sorted_releases_asc(releases) == SortFromAsc(releases, <<>>)

\* sorted(..., key=released_at, reverse=True): stable, most recent first
sorted_releases(releases) == SortFrom(releases, <<>>)

filtered_releases(sorted, downgrade, target) ==
    IF downgrade
    THEN SelectSeq(sorted, LAMBDA r : VersionLeq(r.factorio_version, target))
    ELSE SelectSeq(sorted, LAMBDA r : r.factorio_version = target)

\* A portal response: status code, whether the JSON has the key 'releases',
\* and the list under it.
Response(status, has_releases, releases) ==
    [status |-> status, has_releases |-> has_releases, releases |-> releases]

\* get_mod_infos: kind "None" is the bare return, "KeyError" the exception
\* raised by r.json()['releases'] when the key is missing.
get_mod_infos(mod, r, downgrade, target) ==
    IF r.status # 200 THEN [kind |-> "None"]
    ELSE IF ~r.has_releases THEN [kind |-> "KeyError"]
    ELSE LET sorted == sorted_releases(r.releases)
         IN  [kind |-> "infos",
              name |-> mod.name,
              enabled |-> mod.enabled,
              releases |-> sorted,
              same_version_releases |->
                  filtered_releases(sorted, downgrade, target)]

\* ------------------------------------------------------------------ the world
\* The remote catalog: release k of mod m. Releases alternate between the
\* two host versions and are released in the order of k.
Release(m, k) ==
    [file_name |-> <<m, k>>,
     sha1 |-> k,
     factorio_version |-> IF k % 2 = 1 THEN <<0, 18>> ELSE <<1, 0>>,
     released_at |-> k]

FileNames == Mods \X (1..NumReleases)

\* what requests.get can answer for mod m: an error status, a JSON without
\* 'releases', or the first n releases of the catalog (n = 0: an empty list)
Responses(m) ==
    {Response(404, FALSE, <<>>), Response(200, FALSE, <<>>)}
    \cup {Response(200, TRUE, [k \in 1..n |-> Release(m, k)]) : n \in 0..NumReleases}

\* a local file holds the content of its release or something else (digest 0)
LocalStores ==
    UNION {{f \in [S -> 0..NumReleases] : \A x \in S : f[x] \in {0, x[2]}} :
           S \in {T \in SUBSET FileNames : Cardinality(T) <= MaxLocal}}

Entry(name, enabled) == [name |-> name, enabled |-> enabled]
Base == Entry("base", TRUE)

InitManifests ==
    {<<Base>>,
     <<Base, Entry("a", TRUE), Entry("b", FALSE)>>,
     <<Base, Entry("b", TRUE), Entry("a", FALSE)>>,
     <<Base, Entry("a", TRUE), Entry("a", FALSE)>>}

\* config.json: absent (the empty mapping) or a file with some of the keys
Configs ==
    {<<>>,
     [username |-> "u", token |-> "t", service_name |-> "factorio",
      should_downgrade |-> FALSE]}

\* ------------------------------------------------------------------ effects
Effects(op, mod, fetch, known, chosen, asked, did) ==
    [op |-> op, mod |-> mod, fetch |-> fetch, known |-> known,
     chosen |-> chosen, asked |-> asked, did |-> did]

NoEffects(op) == Effects(op, None, "none", {}, <<>>, {}, {})

\* the calls a step makes to the collaborators that change something
Write == <<"write_mods_list">>
Delete(file_name) == <<"remove", file_name>>
Download(file_name) == <<"download", file_name>>
Restart == <<"systemctl restart">>

\* how a response reads to the caller
FetchKind(r) ==
    IF r.status # 200 THEN "error"
    ELSE IF ~r.has_releases THEN "nokey"
    ELSE IF r.releases = <<>> THEN "empty" ELSE "ok"

KnownFiles(r) == {r.releases[i].file_name : i \in DOMAIN r.releases}

\* ------------------------------------------------------------------ helpers
read_mods_list(m, remove_base) == IF remove_base THEN Tail(m) ELSE m

write_mods_list(current, mods_list, dry_run) ==
    IF dry_run THEN current ELSE mods_list

\* remove_file without the dry-run test
remove_file_always(fs, file_path, dry_run) ==
    IF file_path \in DOMAIN fs
    THEN [x \in DOMAIN fs \ {file_path} |-> fs[x]]
    ELSE fs

remove_file(fs, file_path, dry_run) ==
    IF file_path \in DOMAIN fs
    THEN IF dry_run THEN fs ELSE [x \in DOMAIN fs \ {file_path} |-> fs[x]]
    ELSE fs

RECURSIVE remove_files(_, _, _)
remove_files(fs, releases, dry_run) ==
    IF releases = <<>> THEN fs
    ELSE remove_files(remove_file(fs, Head(releases).file_name, dry_run),
                      Tail(releases), dry_run)

\* check_file_and_sha that never finds the file up to date
check_file_and_sha_never(fs, file_path, sha1) == FALSE

\* get_file_sha1 of a file is the digest the store holds for it
check_file_and_sha(fs, file_path, sha1) ==
    file_path \in DOMAIN fs /\ sha1 = fs[file_path]

\* download_mod: zip says whether the portal answered with application/zip
download_mod(fs, release, dry_run, zip) ==
    IF dry_run THEN [files |-> fs, exit |-> FALSE, did |-> {}]
    ELSE IF ~zip THEN [files |-> fs, exit |-> TRUE, did |-> {}]
    ELSE [files |-> [x \in DOMAIN fs \cup {release.file_name} |->
                        IF x = release.file_name THEN release.sha1 ELSE fs[x]],
          exit |-> FALSE, did |-> {Download(release.file_name)}]

\* the calls that act on disk (none in a dry run)
Acted(calls, dry_run) == IF dry_run THEN {} ELSE calls

Idle == [todo |-> <<>>, enabled_only |-> FALSE]

Goto(p, g, fs, m, u, e) ==
    /\ pc' = p
    /\ glob' = g
    /\ files' = fs
    /\ manifest' = m
    /\ upd' = u
    /\ effects' = e
    /\ UNCHANGED <<args, restarts, rin, rout>>

Flagged(g) == [g EXCEPT !.has_to_reload = TRUE]

\* ------------------------------------------------------------------ load_config
FromConfig(config, key, default) ==
    IF key \in DOMAIN config THEN config[key] ELSE default

\* args.x or config['x'] for strings: None and "" are falsy
OrConfig(a, config, key, default) ==
    IF a # None /\ a # "" THEN a ELSE FromConfig(config, key, default)

\* the test of line 385, which reads username twice
credentials_missing(g) == g.username = "" \/ g.username = ""

\* load_config followed by main's test of its result; config is the content
\* of config.json and binary what the installed binary reports
LoadConfig ==
    /\ pc = "start"
    /\ \E config \in Configs, binary \in BinaryVersions :
         LET g1 == [glob EXCEPT
                      !.should_reload =
                          IF args.should_reload THEN TRUE
                          ELSE FromConfig(config, "should_reload", FALSE),
                      !.service_name =
                          OrConfig(args.service_name, config, "service_name", None)]
             g2 == [g1 EXCEPT
                      !.username = OrConfig(args.username, config, "username", ""),
                      !.token = OrConfig(args.token, config, "token", "")]
             g3 == [g2 EXCEPT
                      !.dry_run = args.dry_run,
                      !.factorio_version = find_version(binary),
                      !.should_downgrade =
                          IF args.should_downgrade THEN TRUE
                          ELSE FromConfig(config, "should_downgrade", FALSE)]
             e == NoEffects("load_config")
         IN  IF g1.should_reload /\ g1.service_name = None
             THEN Goto("failed", g1, files, manifest, upd, e)
             ELSE IF OrConfig(args.factorio_path, config, "factorio_path", None) = None
             THEN Goto("failed", g1, files, manifest, upd, e)
             ELSE IF (args.should_update \/ args.mod_name_to_install # None)
                     /\ credentials_missing(g2)
             THEN Goto("failed", g2, files, manifest, upd, e)
             ELSE Goto("enable", g3, files, manifest, upd, e)

\* ------------------------------------------------------------------ enable / disable
\* update_state_mods over the list read without its first entry, as
\* read_mods_list() gives it by default
update_state_mods_no_base(mods_list, mods_name_list, should_enable) ==
    [i \in DOMAIN Tail(mods_list) |->
        IF Tail(mods_list)[i].name \in mods_name_list
        THEN [Tail(mods_list)[i] EXCEPT !.enabled = should_enable]
        ELSE Tail(mods_list)[i]]

\* update_state_mods: the new list under "mods"
update_state_mods(mods_list, mods_name_list, should_enable) ==
    [i \in DOMAIN mods_list |->
        IF mods_list[i].name \in mods_name_list
        THEN [mods_list[i] EXCEPT !.enabled = should_enable]
        ELSE mods_list[i]]

\* args.list_enable_mods / args.list_disable_mods: the empty set stands for
\* the switch not given (None, falsy like the empty list)
NameLists == SUBSET Mods

StateMods(names, should_enable, next) ==
    IF names = {}
    THEN Goto(next, glob, files, manifest, upd,
              NoEffects(IF should_enable THEN "enable" ELSE "disable"))
    ELSE Goto(next, Flagged(glob), files,
              write_mods_list(manifest,
                  update_state_mods(read_mods_list(manifest, FALSE), names, should_enable),
                  glob.dry_run),
              upd,
              Effects(IF should_enable THEN "enable" ELSE "disable", None, "none",
                      {}, <<>>, {Write}, Acted({Write}, glob.dry_run)))

\* main, lines 437-439
MainEnable ==
    /\ pc = "enable"
    /\ StateMods(args.list_enable_mods, TRUE, "disable")

\* main, lines 442-444
MainDisable ==
    /\ pc = "disable"
    /\ StateMods(args.list_disable_mods, FALSE, "list")

\* main, lines 447-449
MainList ==
    /\ pc = "list"
    /\ Goto(IF args.list_mods THEN "listed" ELSE "update",
            glob, files, manifest, upd, NoEffects("list"))

\* ------------------------------------------------------------------ update
\* main, lines 452-453, and update_mods up to its loop
MainUpdate ==
    /\ pc = "update"
    /\ LET mods_list == read_mods_list(manifest, TRUE)
       IN  IF ~args.should_update \/ mods_list = <<>>
             THEN Goto("install", glob, files, manifest, Idle, NoEffects("update"))
             ELSE Goto("updating", glob, files, manifest,
                       [todo |-> mods_list, enabled_only |-> args.enabled_only],
                       NoEffects("update"))

\* one iteration of the loop of update_mods, lines 200-225; r is the
\* portal's answer, zip whether a download is answered with a Zip file
UpdateOne ==
    /\ pc = "updating"
    /\ \E zip \in BOOLEAN : \E r \in Responses(Head(upd.todo).name) :
         LET mod == Head(upd.todo)
             mod_infos == get_mod_infos(mod, r, glob.should_downgrade,
                                        glob.factorio_version)
             rest == [upd EXCEPT !.todo = Tail(upd.todo)]
             after == IF Tail(upd.todo) = <<>> THEN "install" ELSE "updating"
             u2 == IF Tail(upd.todo) = <<>> THEN Idle ELSE rest
             skip == Effects("update", mod.name, FetchKind(r), KnownFiles(r),
                             <<>>, {}, {})
         IN  IF mod_infos.kind # "infos"
             \* KeyError in get_mod_infos, or TypeError subscripting None
             THEN Goto("crashed", glob, files, manifest, upd, skip)
             ELSE IF upd.enabled_only /\ ~mod_infos.enabled
             THEN Goto(after, glob, files, manifest, u2, skip)
             ELSE IF mod_infos.same_version_releases = <<>>
             THEN Goto(after, glob, files, manifest, u2, skip)
             ELSE
               LET chosen == mod_infos.same_version_releases[1]
                   delete_list == SelectSeq(mod_infos.releases,
                                     LAMBDA x : x.file_name # chosen.file_name)
                   gone == {delete_list[i].file_name : i \in DOMAIN delete_list}
                               \cap DOMAIN files
                   asked == {Delete(f) : f \in gone}
                   fs1 == remove_files(files, delete_list, glob.dry_run)
                   dl == download_mod(fs1, chosen, glob.dry_run, zip)
               IN  IF check_file_and_sha(fs1, chosen.file_name, chosen.sha1)
                   THEN Goto(after, glob, fs1, manifest, u2,
                             Effects("update", mod.name, FetchKind(r), KnownFiles(r),
                                     <<chosen>>, asked, Acted(asked, glob.dry_run)))
                   ELSE IF dl.exit
                   THEN Goto("aborted", glob, fs1, manifest, upd,
                             Effects("update", mod.name, FetchKind(r), KnownFiles(r),
                                     <<chosen>>, asked \cup {Download(chosen.file_name)},
                                     Acted(asked, glob.dry_run)))
                   ELSE Goto(after, Flagged(glob), dl.files, manifest, u2,
                             Effects("update", mod.name, FetchKind(r), KnownFiles(r),
                                     <<chosen>>, asked \cup {Download(chosen.file_name)},
                                     Acted(asked, glob.dry_run) \cup dl.did))

\* ------------------------------------------------------------------ install
\* main, lines 457-459, and install_mod
MainInstall ==
    /\ pc = "install"
    /\ \E zip \in BOOLEAN :
       \E r \in Responses(IF args.mod_name_to_install = None THEN "a"
                           ELSE args.mod_name_to_install) :
         LET mod_name == args.mod_name_to_install
             mod == Entry(mod_name, TRUE)
             mod_infos == get_mod_infos(mod, r, glob.should_downgrade,
                                        glob.factorio_version)
             skip == Effects("install", mod_name, FetchKind(r), KnownFiles(r),
                             <<>>, {}, {})
         IN  IF mod_name = None
             THEN Goto("remove", glob, files, manifest, upd, NoEffects("install"))
             ELSE IF mod_infos.kind = "KeyError"
             THEN Goto("crashed", glob, files, manifest, upd, skip)
             ELSE IF mod_infos.kind = "None"
             THEN Goto("remove", glob, files, manifest, upd, skip)
             ELSE IF mod_infos.same_version_releases = <<>>
             THEN Goto("remove", glob, files, manifest, upd, skip)
             ELSE
               LET chosen == mod_infos.same_version_releases[1]
                   m1 == write_mods_list(manifest,
                             Append(read_mods_list(manifest, FALSE), mod),
                             glob.dry_run)
                   dl == download_mod(files, chosen, glob.dry_run, zip)
               IN  IF check_file_and_sha(files, chosen.file_name, chosen.sha1)
                   THEN Goto("remove", glob, files, m1, upd,
                             Effects("install", mod_name, FetchKind(r), KnownFiles(r),
                                     <<chosen>>, {Write},
                                     Acted({Write}, glob.dry_run)))
                   ELSE IF dl.exit
                   THEN Goto("aborted", glob, files, m1, upd,
                             Effects("install", mod_name, FetchKind(r), KnownFiles(r),
                                     <<chosen>>, {Write, Download(chosen.file_name)},
                                     Acted({Write}, glob.dry_run)))
                   ELSE Goto("remove", Flagged(glob), dl.files, m1, upd,
                             Effects("install", mod_name, FetchKind(r), KnownFiles(r),
                                     <<chosen>>, {Write, Download(chosen.file_name)},
                                     Acted({Write}, glob.dry_run) \cup dl.did))

\* ------------------------------------------------------------------ remove
\* remove_mod's filter that keeps every entry
without_mod_keep(mods_list, mod_name) == mods_list

\* the loop of lines 294-297
without_mod(mods_list, mod_name) ==
    SelectSeq(mods_list, LAMBDA mod : mod_name # mod.name)

\* main, lines 462-464, and remove_mod
MainRemove ==
    /\ pc = "remove"
    /\ \E r \in Responses(IF args.remove_mod_name = None THEN "a"
                           ELSE args.remove_mod_name) :
         LET mod_name == args.remove_mod_name
             mod_infos == get_mod_infos(Entry(mod_name, TRUE), r,
                                        glob.should_downgrade, glob.factorio_version)
             skip == Effects("remove", mod_name, FetchKind(r), KnownFiles(r),
                             <<>>, {}, {})
         IN  IF mod_name = None
             THEN Goto("reload", glob, files, manifest, upd, NoEffects("remove"))
             ELSE IF mod_infos.kind = "KeyError"
             THEN Goto("crashed", glob, files, manifest, upd, skip)
             ELSE IF mod_infos.kind = "None"
             THEN Goto("reload", glob, files, manifest, upd, skip)
             ELSE
               LET gone == KnownFiles(r) \cap DOMAIN files
                   asked == {Delete(f) : f \in gone} \cup {Write}
               IN  Goto("reload", Flagged(glob),
                        remove_files(files, mod_infos.releases, glob.dry_run),
                        write_mods_list(manifest,
                            without_mod(read_mods_list(manifest, FALSE), mod_name),
                            glob.dry_run),
                        upd,
                        Effects("remove", mod_name, FetchKind(r), KnownFiles(r),
                                <<>>, asked, Acted(asked, glob.dry_run)))

\* ------------------------------------------------------------------ reload
\* a restart whenever auto-restart is configured, changed or not
restart_wanted_always(g) == ~g.dry_run /\ g.should_reload

\* lines 466-475: whether os.system('systemctl restart ...') is reached
restart_wanted(g) == g.has_to_reload /\ ~g.dry_run /\ g.should_reload

\* main, lines 466-480
MainReload ==
    /\ pc = "reload"
    /\ pc' = "done"
    /\ restarts' = IF restart_wanted(glob) THEN restarts + 1 ELSE restarts
    /\ effects' = Effects("reload", None, "none", {}, <<>>, {},
                          IF restart_wanted(glob) THEN {Restart} ELSE {})
    /\ UNCHANGED <<args, glob, files, manifest, upd, rin, rout>>

\* ------------------------------------------------------------------ a run
\* glob as the module defines it (has_to_reload: None reads as not True)
GlobInit ==
    [dry_run |-> FALSE, factorio_version |-> None, username |-> None,
     token |-> None, should_reload |-> FALSE, service_name |-> None,
     has_to_reload |-> FALSE, should_downgrade |-> FALSE]

Switches ==
    [dry_run : BOOLEAN, list_mods : BOOLEAN, should_update : BOOLEAN,
     enabled_only : BOOLEAN, mod_name_to_install : {None} \cup Mods,
     remove_mod_name : {None} \cup Mods,
     list_enable_mods : NameLists, list_disable_mods : NameLists,
     username : {None, "u"}, token : {None, "t"},
     should_reload : BOOLEAN, service_name : {None, "factorio"},
     should_downgrade : BOOLEAN, factorio_path : {None, "/opt/factorio"}]

\* the command line that asks for nothing and gives the path, the
\* credentials and a service to restart
Plain ==
    [dry_run |-> FALSE, list_mods |-> FALSE, should_update |-> FALSE,
     enabled_only |-> FALSE, mod_name_to_install |-> None,
     remove_mod_name |-> None, list_enable_mods |-> {}, list_disable_mods |-> {},
     username |-> "u", token |-> "t", should_reload |-> TRUE,
     service_name |-> "factorio", should_downgrade |-> FALSE,
     factorio_path |-> "/opt/factorio"]

\* the command lines that differ from Plain in the given switches only
Varying(keys) ==
    {a \in Switches : \A k \in DOMAIN Plain \ keys : a[k] = Plain[k]}

\* one operation per run
OneOperation(a) ==
    Cardinality({k \in {"should_update", "mod_name_to_install", "remove_mod_name"} :
                    a[k] # Plain[k]}) = 1

NoResolver == [kind |-> "None"]

InitRun(argset, stores, manifests) ==
    /\ pc = "start"
    /\ args \in argset
    /\ glob = GlobInit
    /\ files \in stores
    /\ manifest \in manifests
    /\ upd = Idle
    /\ restarts = 0
    /\ effects = NoEffects("none")
    /\ rin = NoResolver
    /\ rout = NoResolver

OneStore == {[x \in {<<"a", 1>>} |-> 1]}
OneManifest == {<<Base, Entry("a", TRUE), Entry("b", FALSE)>>}

\* the runs: every way to give or omit the configuration, and every
\* combination of the switches, over one mods directory; every single
\* operation over every mods directory and manifest; every enable and
\* disable over every manifest
Init ==
    \/ InitRun(Varying({"username", "token", "factorio_path", "should_update",
                        "mod_name_to_install", "should_reload", "service_name"}),
               OneStore, OneManifest)
    \/ InitRun({a \in Varying({"dry_run", "list_mods", "should_update",
                               "mod_name_to_install", "remove_mod_name",
                               "list_enable_mods", "list_disable_mods",
                               "should_reload"}) :
                    /\ a.mod_name_to_install # "b"
                    /\ a.remove_mod_name # "b"},
               OneStore, OneManifest)
    \/ InitRun({a \in Varying({"dry_run", "should_update", "enabled_only",
                               "mod_name_to_install", "remove_mod_name",
                               "should_downgrade"}) : OneOperation(a)},
               LocalStores, InitManifests)
    \/ InitRun(Varying({"dry_run", "list_enable_mods", "list_disable_mods"}),
               OneStore, InitManifests)

Next ==
    \/ LoadConfig
    \/ MainEnable
    \/ MainDisable
    \/ MainList
    \/ MainUpdate
    \/ UpdateOne
    \/ MainInstall
    \/ MainRemove
    \/ MainReload

Spec == Init /\ [][Next]_vars

\* ------------------------------------------------------------------ the resolver alone
\* release i of a collection of n releases; hv gives each its required host
\* version and its release time
Collection(n, hv) ==
    [i \in 1..n |-> [file_name |-> <<"m", i>>, sha1 |-> i,
                     factorio_version |-> hv[i][1], released_at |-> hv[i][2]]]

Collections ==
    UNION {{Collection(n, hv) : hv \in [1..n -> Versions \X (1..MaxTime)]} :
           n \in 0..MaxLen}

InitResolver ==
    /\ pc = "resolver"
    /\ args = Plain
    /\ glob = GlobInit
    /\ files = <<>>
    /\ manifest = <<Base>>
    /\ upd = Idle
    /\ restarts = 0
    /\ effects = NoEffects("none")
    /\ rin \in [releases : Collections, target : Versions, downgrade : BOOLEAN]
    /\ rout = NoResolver

\* get_mod_infos on a portal answer that carries the collection
Resolve ==
    /\ pc = "resolver"
    /\ pc' = "resolved"
    /\ rout' = get_mod_infos(Entry("m", TRUE), Response(200, TRUE, rin.releases),
                             rin.downgrade, rin.target)
    /\ UNCHANGED <<args, glob, files, manifest, upd, restarts, effects, rin>>

NextResolver == Resolve

SpecResolver == InitResolver /\ [][NextResolver]_vars

\* ------------------------------------------------------------------ C1
\* the releases of the resolver's input that the target host can run
CompatibleIndexes ==
    {i \in DOMAIN rin.releases :
        LET v == rin.releases[i].factorio_version
            t == rin.target
        IN  IF rin.downgrade
            THEN v[1] < t[1] \/ (v[1] = t[1] /\ v[2] <= t[2])
            ELSE v = t}

HashEqualStep ==
    /\ pc \in {"install", "updating"}
    /\ effects'.op \in {"install", "update"}
    /\ effects'.chosen # <<>>
    /\ effects'.chosen[1].file_name \in DOMAIN files
    /\ files[effects'.chosen[1].file_name] = effects'.chosen[1].sha1

\* C2 as stated: such a step has no side effect at all: no download, no
\* file deleted or written, no manifest write, restart flag not set.
C2_NoSideEffects ==
    [][HashEqualStep =>
          /\ \A c \in effects'.asked : c[1] # "download"
          /\ files' = files
          /\ manifest' = manifest
          /\ effects'.did = {}
          /\ glob'.has_to_reload = glob.has_to_reload]_vars

\* C2, amended: such a step downloads nothing, leaves the resolved release's
\* file as it is and does not set the restart flag; install touches no file
\* (it still appends the mod's entry to the manifest) and update leaves the
\* manifest alone (it still deletes the superseded release files).
C2_NoDownloadNoFlag ==
    [][HashEqualStep =>
          LET f == effects'.chosen[1].file_name
          IN  /\ \A c \in effects'.asked : c[1] # "download"
              /\ f \in DOMAIN files' /\ files'[f] = files[f]
              /\ glob'.has_to_reload = glob.has_to_reload
              /\ effects'.op = "install" => files' = files
              /\ effects'.op = "update" => manifest' = manifest]_vars

\* an install that found the resolved file up to date and wrote the manifest
C2_Witness ==
    /\ effects.op = "install"
    /\ effects.chosen # <<>>
    /\ effects.asked = {Write}
    /\ effects.did = {Write}
    /\ effects.chosen[1].file_name \in DOMAIN files
    /\ files[effects.chosen[1].file_name] = effects.chosen[1].sha1
    /\ ~glob.has_to_reload

\* ------------------------------------------------------------------ C3
\* C3: in a dry run no step changes a local mod file or the manifest, none
\* performs a download, a deletion or a manifest write, and the service is
\* never restarted.
C3_DryRunTouchesNothing ==
    [][args.dry_run =>
          /\ files' = files
          /\ manifest' = manifest
          /\ restarts' = restarts
          /\ effects'.did = {}]_vars

\* a dry run that ended after asking for deletions, a manifest write and a
\* download, with the restart configured and the flag set
C3_Witness ==
    /\ args.dry_run
    /\ pc = "done"
    /\ glob.has_to_reload
    /\ glob.should_reload
    /\ args.list_enable_mods # {}
    /\ args.should_update
    /\ args.mod_name_to_install # None
    /\ args.remove_mod_name # None

\* ------------------------------------------------------------------ C4
\* C4: when the metadata fetch fails for a mod during update, the mod is
\* skipped and the run goes on to the next mod or to the step after update.
C4_FetchFailureSkipsMod ==
    (effects.op = "update" /\ effects.fetch = "error") =>
        pc \in {"updating", "install"}

\* ------------------------------------------------------------------ C5
\* C5: after an install or the update of a mod that resolved a release and
\* ran to its end outside a dry run, the only known release file of the mod
\* in the mods directory is the resolved release's file.
C5_SingleArtifact ==
    (/\ effects.op \in {"install", "update"}
     /\ effects.chosen # <<>>
     /\ ~glob.dry_run
     /\ pc \notin {"aborted", "crashed"}) =>
        effects.known \cap DOMAIN files = {effects.chosen[1].file_name}

\* ------------------------------------------------------------------ C6
RemoveDone ==
    /\ effects.op = "remove"
    /\ effects.mod # None
    /\ ~glob.dry_run
    /\ pc = "reload"

NothingLeft ==
    /\ effects.known \cap DOMAIN files = {}
    /\ \A i \in DOMAIN manifest : manifest[i].name # effects.mod

C7_MissingCredentialsStopRun ==
    (/\ pc # "start"
     /\ args.should_update \/ args.mod_name_to_install # None
     /\ glob.username = "" \/ glob.token = "") =>
        pc = "failed"

\* ------------------------------------------------------------------ C8
Mutating(calls) == \E c \in calls : c[1] \in {"download", "write_mods_list"}

RestartDiscipline ==
    /\ restarts' <= 1
    /\ restarts' # restarts =>
          /\ pc = "reload" /\ pc' = "done"
          /\ glob.should_reload /\ glob.service_name # None
          /\ glob.has_to_reload
    /\ glob.has_to_reload => glob'.has_to_reload

\* C8 as stated: at most one restart, only from the end of the run with
\* auto-restart, a service name and the flag set; the flag is never cleared
\* and is set only by a step that performed a download or a manifest write.
C8_RestartOnceAfterMutation ==
    [][/\ RestartDiscipline
       /\ (~glob.has_to_reload /\ glob'.has_to_reload) =>
              Mutating(effects'.did)]_vars

\* C8, amended: the flag is set only by a step that called for a download
\* or a manifest write, which it performed unless the run is a dry run.
C8_RestartOnceAfterMutationAsked ==
    [][/\ RestartDiscipline
       /\ (~glob.has_to_reload /\ glob'.has_to_reload) =>
              /\ Mutating(effects'.asked)
              /\ ~glob.dry_run => Mutating(effects'.did)]_vars

\* a run that updated, ended with the flag set and restarted the service
C8_Witness ==
    /\ pc = "done"
    /\ restarts = 1
    /\ effects.did = {Restart}
    /\ args.should_update
    /\ glob.has_to_reload

\* ------------------------------------------------------------------ C9
\* C9: an operation whose metadata carries an empty release collection, or
\* none, skips the mod: no fatal error, no file or manifest change, restart
\* flag as before.
C9_NoReleasesSkipsMod ==
    [][(/\ pc \in {"updating", "install", "remove"}
        /\ effects'.fetch \in {"empty", "nokey"}) =>
          /\ pc' # "crashed"
          /\ files' = files
          /\ manifest' = manifest
          /\ effects'.did = {}
          /\ glob'.has_to_reload = glob.has_to_reload]_vars

\* ------------------------------------------------------------------ C10
\* C10: with the list switch no step of the run changes the manifest or a
\* local mod file.
C10_ListIgnoresOtherSwitches ==
    [][args.list_mods => (manifest' = manifest /\ files' = files)]_vars

\* ------------------------------------------------------------------ C11
\* a step of main that runs update_state_mods for the given names
StateModsStep(names, position) == pc = position /\ names # {}

\* what enable (should_enable) or disable of names leaves and sets: same
\* entries, names and order, 'enabled' of the named entries set (left as it
\* is in a dry run), every other 'enabled' and every mod file as before
OnlyEnabledOfNamed(names, should_enable) ==
    /\ files' = files
    /\ Len(manifest') = Len(manifest)
    /\ \A i \in DOMAIN manifest :
          /\ manifest'[i].name = manifest[i].name
          /\ manifest'[i].enabled =
                IF manifest[i].name \in names /\ ~glob.dry_run
                THEN should_enable
                ELSE manifest[i].enabled

\* C11: enable(names) and disable(names) change only the 'enabled' field of
\* the manifest entries whose name is in names, to true respectively false;
\* the number of entries, their names and order (the base entry included)
\* and the 'enabled' field of every other entry stay, and no mod file is
\* touched.
C11_OnlyEnabledOfNamedChanges ==
    [][/\ StateModsStep(args.list_enable_mods, "enable") =>
              OnlyEnabledOfNamed(args.list_enable_mods, TRUE)
       /\ StateModsStep(args.list_disable_mods, "disable") =>
              OnlyEnabledOfNamed(args.list_disable_mods, FALSE)]_vars

\* enable of b alone took effect: b, disabled before, is enabled, behind the
\* base entry and a as they were
C11_Witness ==
    /\ effects.op = "enable"
    /\ effects.did = {Write}
    /\ args.list_enable_mods = {"b"}
    /\ manifest = <<Base, Entry("a", TRUE), Entry("b", TRUE)>>
    /\ files = [x \in {<<"a", 1>>} |-> 1]
====
